---------------------------- MODULE Spec2Model ----------------------------
(***************************************************************************)
(* A model of coc-black-formatter's provisioning and path-resolution code: *)
(*   - the MSYS2 detector, its promise cache and the path translator       *)
(*     (tool.ts: isMsys2Python, toMsys2Path, getVenvExecutable);           *)
(*   - the install command (commands/installServer.ts:                     *)
(*     handleInstallServer, doDownload, doExtract, doInstall).             *)
(* Three specifications share the variables: SpecDetect (the detector),    *)
(* SpecPath (the translator, a pure function applied to bounded strings)   *)
(* and SpecInstall (the install runs, the filesystem and the resolver).    *)
(***************************************************************************)
EXTENDS Integers, Sequences, FiniteSets, TLC

VARIABLES
  \* ---- detector (tool.ts) ----
  pythonTypeCache,  \* Map<string, Promise<boolean>>: key -> index into probes
  probes,           \* one record per spawned probe child and its detectPromise
  calls,            \* one record per isMsys2Python call and what its caller saw
  \* ---- translator (tool.ts) ----
  platform,         \* process.platform of the running process
  pathIn,           \* the string given to toMsys2Path
  pathOut,          \* its result: [ok |-> TRUE, val |-> string] or a thrown Error
  pathTwice,        \* the result of toMsys2Path applied to pathOut's string
  pathPc,           \* "input", "once" (translated), "twice" (translated again)
  \* ---- install command and resolver (installServer.ts, tool.ts) ----
  host,             \* the machine: OS name, interpreter flavour, what is on PATH
  useGlobalCommand, \* the configuration's useGlobalCommand
  files,            \* archive files in the storage root: name -> bytes written
  base,             \* whether the archive's unpacked top-level directory exists
  dir,              \* the install directory {storagePath}/{UPSTREAM_NAME}
  runs,             \* one record per run of the install command
  resolved,         \* the last result of getVenvExecutable
  \* ---- language client (client.ts) ----
  config,           \* the configuration and the resolver's results it reads
  client,           \* createLanguageClient's position and what it has computed
  \* ---- process runner (installServer.ts: spawnAsync) ----
  runner            \* one call of spawnAsync: its child, its buffers, its promise

detVars == <<pythonTypeCache, probes, calls>>
pathVars == <<platform, pathIn, pathOut, pathTwice, pathPc>>

instVars == <<host, useGlobalCommand, files, base, dir, runs, resolved>>

clientVars == <<config, client>>

runVars == <<runner>>

vars == <<pythonTypeCache, probes, calls,
          platform, pathIn, pathOut, pathTwice, pathPc,
          host, useGlobalCommand, files, base, dir, runs, resolved,
          config, client, runner>>

(***************************************************************************)
(* Bounds                                                                  *)
(***************************************************************************)
MaxCalls == 3
MaxLen == 5
MaxRuns == 2
ArchiveLen == 2
MaxData == 2

(***************************************************************************)
(* Paths of interpreters.  A path argument is a record: abs says whether   *)
(* it starts at the root, segs are its segments.  The process's working    *)
(* directory is /usr/bin; /usr/local/python is a symbolic link to          *)
(* /usr/bin/python; /opt/python is another binary.                         *)
(***************************************************************************)
Cwd == <<"usr", "bin">>

PythonArgs ==
  { [abs |-> FALSE, segs |-> <<"..", "bin", ".", "python">>],
    [abs |-> TRUE,  segs |-> <<"usr", "bin", "python">>],
    [abs |-> TRUE,  segs |-> <<"usr", "local", "python">>],
    [abs |-> TRUE,  segs |-> <<"opt", "python">>] }

\* The filesystem's symbolic links: absolute path -> absolute target.
SymlinkTarget(p) ==
  IF p = <<"usr", "local", "python">> THEN <<"usr", "bin", "python">> ELSE p

\* path.resolve's normalisation of "." and ".." over the joined segments.
RECURSIVE NormalizeSegs(_, _)
NormalizeSegs(segs, acc) ==
  IF segs = <<>> THEN acc
  ELSE LET s == Head(segs) IN
       IF s = "." THEN NormalizeSegs(Tail(segs), acc)
       ELSE IF s = ".."
            THEN NormalizeSegs(Tail(segs),
                               IF acc = <<>> THEN acc
                               ELSE SubSeq(acc, 1, Len(acc) - 1))
            ELSE NormalizeSegs(Tail(segs), Append(acc, s))

\* path.resolve(p): absolute and normalised; symbolic links are NOT followed.
PathResolve(p) ==
  NormalizeSegs(IF p.abs THEN p.segs ELSE Cwd \o p.segs, <<>>)

\* fs.realpathSync(p): absolute, normalised and with symbolic links followed.
RealPath(p) == SymlinkTarget(PathResolve(p))

\* A mutant of CacheKey: the argument's segments as given, not resolved.
CacheKey_unresolved(pythonExe) == pythonExe.segs

\* const absPath = path.resolve(pythonExe)
CacheKey(pythonExe) == PathResolve(pythonExe)

(***************************************************************************)
(* The probe's standard output, as a sequence of tokens; trim() removes    *)
(* the white space at both ends.                                           *)
(***************************************************************************)
WhiteSpace == {" ", "\n"}

ProbeOutputs ==
  { <<"MSYS2", "\n">>, <<"NATIVE", "\n">>, <<>>, <<"MSYS2", " ", "MSYS2", "\n">> }

RECURSIVE TrimLeft(_)
TrimLeft(s) ==
  IF s # <<>> /\ Head(s) \in WhiteSpace THEN TrimLeft(Tail(s)) ELSE s

RECURSIVE TrimRight(_)
TrimRight(s) ==
  IF s # <<>> /\ s[Len(s)] \in WhiteSpace
  THEN TrimRight(SubSeq(s, 1, Len(s) - 1)) ELSE s

Trim(s) == TrimRight(TrimLeft(s))

\* A mutant of IsMsys2Token: the output only has to begin with the token.
IsMsys2Token_startsWith(output) == output # <<>> /\ Head(output) = "MSYS2"

\* resolve(result === 'MSYS2')
IsMsys2Token(output) == Trim(output) = <<"MSYS2">>

(***************************************************************************)
(* The cache, a Map: a function whose domain is the set of keys it holds.  *)
(***************************************************************************)
\* A mutant of CacheHas: the lookup never finds the entry.
CacheHas_never(cache, key) == FALSE

\* pythonTypeCache.has(absPath)
CacheHas(cache, key) == key \in DOMAIN cache

\* pythonTypeCache.set(absPath, detectPromise)
CacheSet(cache, key, id) ==
  [k \in DOMAIN cache \cup {key} |-> IF k = key THEN id ELSE cache[k]]

\* pythonTypeCache.delete(absPath)
CacheDelete(cache, key) == [k \in DOMAIN cache \ {key} |-> cache[k]]

(***************************************************************************)
(* Promises settle once: resolve and reject on a settled promise are       *)
(* no-ops.                                                                 *)
(***************************************************************************)
PromiseResolve(p, v) ==
  IF p.state = "pending"
  THEN [p EXCEPT !.state = IF v THEN "true" ELSE "false"]
  ELSE p

PromiseReject(p, why) ==
  IF p.state = "pending"
  THEN [p EXCEPT !.state = "rejected", !.cause = why]
  ELSE p

\* The probes that are still pending for a key.
PendingFor(key) ==
  {i \in 1..Len(probes) : probes[i].key = key /\ probes[i].state = "pending"}

(***************************************************************************)
(* The callers' continuations.  A caller awaits the promise it was given;  *)
(* its continuation is a microtask, and the microtask queue is drained     *)
(* before the next event is handled, so every caller of a promise has seen *)
(* its outcome by the end of the step that settles it (or, for a promise   *)
(* that was settled already, by the end of the call).                      *)
(***************************************************************************)
Outcome(p) ==
  IF p.state = "rejected" THEN "fail"
  ELSE IF p.state = "pending" THEN "none" ELSE p.state

RunContinuations(cs, ps) ==
  [c \in DOMAIN cs |->
     IF cs[c].result = "none"
     THEN [cs[c] EXCEPT !.result = Outcome(ps[cs[c].promise])]
     ELSE cs[c]]

\* A probe's exit field while no 'close' event has been handled.
NotClosed == [code |-> "none", signal |-> "none", kind |-> "none", output |-> <<>>]

(***************************************************************************)
(* isMsys2Python(pythonExe): the whole synchronous body.  It returns the   *)
(* cached promise, or spawns the probe, caches its promise and returns it. *)
(* Each call records, for the claims, which probe of its key was pending   *)
(* when it was issued (live) and whether it spawned one.                   *)
(***************************************************************************)
isMsys2Python(pythonExe) ==
  /\ Len(calls) < MaxCalls
  /\ LET absPath == CacheKey(pythonExe)
         live == PendingFor(absPath)
     IN IF CacheHas(pythonTypeCache, absPath)
        THEN /\ calls' = RunContinuations(
                  Append(calls, [arg |-> pythonExe, key |-> absPath,
                                 promise |-> pythonTypeCache[absPath],
                                 live |-> live, spawned |-> FALSE,
                                 result |-> "none"]), probes)
             /\ UNCHANGED <<pythonTypeCache, probes>>
        ELSE LET id == Len(probes) + 1 IN
             /\ probes' = Append(probes, [key |-> absPath, child |-> "running",
                                          state |-> "pending", cause |-> "none",
                                          evicted |-> FALSE, exit |-> NotClosed])
             /\ pythonTypeCache' = CacheSet(pythonTypeCache, absPath, id)
             /\ calls' = Append(calls, [arg |-> pythonExe, key |-> absPath,
                                        promise |-> id,
                                        live |-> live, spawned |-> TRUE,
                                        result |-> "none"])

\* child.on('error', ...): the process could not be spawned.
ChildError(i) ==
  /\ probes[i].child = "running"
  /\ pythonTypeCache' = CacheDelete(pythonTypeCache, probes[i].key)
  /\ probes' = [probes EXCEPT ![i] =
                  [PromiseReject(@, "spawn") EXCEPT !.child = "errored",
                                                    !.evicted = TRUE]]
  /\ calls' = RunContinuations(calls, probes')

\* The (code, signal) pairs a 'close' event can carry: a normal exit, a
\* nonzero exit, the kill by the 5 s timeout, and the close after 'error'.
CloseEvents(child) ==
  IF child = "running"
  THEN { [code |-> "0", signal |-> "null", kind |-> "exit"],
         [code |-> "1", signal |-> "null", kind |-> "exit"],
         [code |-> "null", signal |-> "SIGTERM", kind |-> "timeout"] }
  ELSE IF child = "errored"
       THEN { [code |-> "-2", signal |-> "null", kind |-> "exit"] }
       ELSE {}

\* A mutant of ExitFailed: the test is `if (code)`, which a null code passes.
ExitFailed_truthyCode(ev) == ev.code \notin {"0", "null"}

\* if (code !== 0 || signal !== null)
ExitFailed(ev) == ev.code # "0" \/ ev.signal # "null"

\* child.on('close', (code, signal) => ...); output is what the child had
\* written to its standard output (nothing when it could not be spawned).
\* The handler reads output only when it goes on to resolve, and the probe's
\* exit field keeps what it read.
ChildClose(i, ev, output) ==
  /\ ev \in CloseEvents(probes[i].child)
  /\ probes[i].child = "errored" => output = <<>>
  /\ probes' = [probes EXCEPT ![i] =
       [ (IF ExitFailed(ev)
          THEN PromiseReject(@, ev.kind)
          ELSE PromiseResolve(@, IsMsys2Token(output)))
         EXCEPT !.child = "closed",
                !.exit = [code |-> ev.code, signal |-> ev.signal,
                          kind |-> ev.kind,
                          output |-> IF ExitFailed(ev) THEN <<>> ELSE output] ]]
  /\ calls' = RunContinuations(calls, probes')
  /\ UNCHANGED pythonTypeCache

(***************************************************************************)
(* Strings are sequences of characters over a small alphabet: the two      *)
(* separators, the colon, letters in both cases and a digit.               *)
(***************************************************************************)
Chars == {"/", "\\", ":", "c", "D", "a", "1"}

Letters == {"c", "D", "a", "C", "d", "A"}

\* String.prototype.toLowerCase on one character.
ToLowerCase(ch) ==
  IF ch = "C" THEN "c" ELSE IF ch = "D" THEN "d" ELSE IF ch = "A" THEN "a" ELSE ch

IsPathSeparator(ch) == ch = "/" \/ ch = "\\"

\* inputPath.replace(/\\/g, '/')
ReplaceBackslashes(s) == [i \in 1..Len(s) |-> IF s[i] = "\\" THEN "/" ELSE s[i]]

\* A mutant of StripLeadingSlashes: it removes one leading slash only.
StripLeadingSlashes_once(s) ==
  IF s # <<>> /\ Head(s) = "/" THEN Tail(s) ELSE s

\* rest.replace(/^\/+/, '')
RECURSIVE StripLeadingSlashes(_)
StripLeadingSlashes(s) ==
  IF s # <<>> /\ Head(s) = "/" THEN StripLeadingSlashes(Tail(s)) ELSE s

\* normalized.match(/^\/([a-zA-Z])\/(.*)$/)
MsysMatch(s) == Len(s) >= 3 /\ s[1] = "/" /\ s[2] \in Letters /\ s[3] = "/"

\* s.match(/^([a-zA-Z]):\/(.*)$/)
WinMatch(s) == Len(s) >= 3 /\ s[1] \in Letters /\ s[2] = ":" /\ s[3] = "/"

\* The second group of either match: the text after the third character.
MatchRest(s) == SubSeq(s, 4, Len(s))

(***************************************************************************)
(* path.resolve(inputPath) with one argument, as Node computes it on each  *)
(* platform.  The working directory is C:\a on Windows and /a elsewhere.   *)
(* The alphabet has no ".", so normalizeString only drops the empty        *)
(* segments between repeated separators.                                   *)
(***************************************************************************)
WinCwd == <<"C", ":", "\\", "a">>
PosixCwd == <<"/", "a">>

\* The non-empty runs of characters between the separators in seps.
RECURSIVE SplitSegs(_, _, _, _)
SplitSegs(s, seps, cur, acc) ==
  IF s = <<>> THEN (IF cur = <<>> THEN acc ELSE Append(acc, cur))
  ELSE IF Head(s) \in seps
       THEN SplitSegs(Tail(s), seps, <<>>,
                      IF cur = <<>> THEN acc ELSE Append(acc, cur))
       ELSE SplitSegs(Tail(s), seps, Append(cur, Head(s)), acc)

RECURSIVE JoinSegs(_, _)
JoinSegs(segs, sep) ==
  IF segs = <<>> THEN <<>>
  ELSE IF Len(segs) = 1 THEN segs[1]
       ELSE segs[1] \o <<sep>> \o JoinSegs(Tail(segs), sep)

\* normalizeString(tail, false, sep, isSeparator)
NormalizeString(tail, seps, sep) == JoinSegs(SplitSegs(tail, seps, <<>>, <<>>), sep)

\* The index of the first character at or after j that is (sepWanted = TRUE)
\* or is not (FALSE) a separator; Len(s) + 1 when there is none.
RECURSIVE ScanTo(_, _, _)
ScanTo(s, j, sepWanted) ==
  IF j > Len(s) THEN j
  ELSE IF IsPathSeparator(s[j]) = sepWanted THEN j
       ELSE ScanTo(s, j + 1, sepWanted)

\* win32.resolve's parse of one path: its device, the end of its root and
\* whether it is absolute.  Indices are 1-based; rootEnd counts characters.
Win32Root(s) ==
  LET len == Len(s) IN
  IF len = 0 THEN [device |-> <<>>, rootEnd |-> 0, isAbsolute |-> FALSE]
  ELSE IF len = 1
  THEN IF IsPathSeparator(s[1])
       THEN [device |-> <<>>, rootEnd |-> 1, isAbsolute |-> TRUE]
       ELSE [device |-> <<>>, rootEnd |-> 0, isAbsolute |-> FALSE]
  ELSE IF IsPathSeparator(s[1])
  THEN IF IsPathSeparator(s[2])
       THEN \* a possible UNC root: \\server\share
            LET j1 == ScanTo(s, 3, TRUE)      \* end of the server name
                j2 == ScanTo(s, j1, FALSE)    \* end of the separators
                j3 == ScanTo(s, j2, TRUE)     \* end of the share name
            IN IF j1 <= len /\ j1 # 3 /\ j2 <= len /\ j2 # j1
               THEN [device |-> <<"\\", "\\">> \o SubSeq(s, 3, j1 - 1)
                                  \o <<"\\">> \o SubSeq(s, j2, j3 - 1),
                     rootEnd |-> j3 - 1, isAbsolute |-> TRUE]
               ELSE [device |-> <<>>, rootEnd |-> 0, isAbsolute |-> TRUE]
       ELSE [device |-> <<>>, rootEnd |-> 1, isAbsolute |-> TRUE]
  ELSE IF s[1] \in Letters /\ s[2] = ":"
  THEN IF len > 2 /\ IsPathSeparator(s[3])
       THEN [device |-> SubSeq(s, 1, 2), rootEnd |-> 3, isAbsolute |-> TRUE]
       ELSE [device |-> SubSeq(s, 1, 2), rootEnd |-> 2, isAbsolute |-> FALSE]
  ELSE [device |-> <<>>, rootEnd |-> 0, isAbsolute |-> FALSE]

LowerAll(s) == [i \in 1..Len(s) |-> ToLowerCase(s[i])]

\* path.win32.resolve(inputPath)
Win32Resolve(inputPath) ==
  LET r == Win32Root(inputPath)
      tail1 == SubSeq(inputPath, r.rootEnd + 1, Len(inputPath))
      \* the working directory used for the device: the process's own when
      \* the drives agree, the drive's root otherwise
      cwd == IF r.device = <<>> \/ LowerAll(r.device) = LowerAll(SubSeq(WinCwd, 1, 2))
             THEN WinCwd
             ELSE r.device \o <<"\\">>
      device == IF r.device # <<>> THEN r.device ELSE SubSeq(cwd, 1, 2)
      tail == IF r.isAbsolute THEN tail1
              ELSE SubSeq(cwd, 4, Len(cwd)) \o <<"\\">> \o tail1
  IN device \o <<"\\">> \o NormalizeString(tail, {"/", "\\"}, "\\")

\* path.posix.resolve(inputPath): only "/" separates.
PosixResolve(inputPath) ==
  LET joined == IF inputPath # <<>> /\ Head(inputPath) = "/" THEN inputPath
                ELSE PosixCwd \o <<"/">> \o inputPath
  IN <<"/">> \o NormalizeString(joined, {"/"}, "/")

\* path.resolve(inputPath) of the running platform
ResolveString(plat, inputPath) ==
  IF plat = "win32" THEN Win32Resolve(inputPath) ELSE PosixResolve(inputPath)

Ok(v) == [ok |-> TRUE, val |-> v]
Thrown == [ok |-> FALSE, val |-> <<>>]

\* A mutant of ThrowError: the unrecognised input is returned as it is.
ThrowError_passThrough(inputPath) == Ok(inputPath)

\* throw new Error(`Cannot convert to MSYS2 path: "${inputPath}". ...`): the
\* error's message carries the input as given.
ThrowError(inputPath) == [ok |-> FALSE, val |-> inputPath]

\* A mutant of MsysRule: the drive letter is kept as written.
MsysRule_keepCase(normalized) ==
  <<"/", normalized[2], "/">> \o StripLeadingSlashes(MatchRest(normalized))

\* Rule 1: `/${drive}/${rest.replace(/^\/+/, '')}`
MsysRule(normalized) ==
  <<"/", ToLowerCase(normalized[2]), "/">>
     \o StripLeadingSlashes(MatchRest(normalized))

\* Rules 2 and 3: `/${drive}/${rest}`
WinRule(s) == <<"/", ToLowerCase(s[1]), "/">> \o MatchRest(s)

\* toMsys2Path(inputPath) on a platform
toMsys2Path(plat, inputPath) ==
  LET normalized == ReplaceBackslashes(inputPath) IN
  IF MsysMatch(normalized) THEN Ok(MsysRule(normalized))
  ELSE IF WinMatch(normalized) THEN Ok(WinRule(normalized))
  ELSE LET absWin == ReplaceBackslashes(ResolveString(plat, inputPath)) IN
       IF WinMatch(absWin) THEN Ok(WinRule(absWin)) ELSE ThrowError(inputPath)

\* Every string of at most MaxLen characters.
Strings == UNION {[1..n -> Chars] : n \in 0..MaxLen}

Platforms == {"win32", "linux"}

\* A caller applies toMsys2Path to its input.
Translate ==
  /\ pathPc = "input"
  /\ pathOut' = toMsys2Path(platform, pathIn)
  /\ pathPc' = "once"
  /\ UNCHANGED <<platform, pathIn, pathTwice>>

\* A caller applies toMsys2Path to the string it returned.
TranslateAgain ==
  /\ pathPc = "once"
  /\ pathOut.ok
  /\ pathTwice' = toMsys2Path(platform, pathOut.val)
  /\ pathPc' = "twice"
  /\ UNCHANGED <<platform, pathIn, pathOut>>

(***************************************************************************)
(* The storage root.  A file is the number of bytes written to it, Absent  *)
(* when it does not exist; the served archive has ArchiveLen chunks.  The  *)
(* canonical archive is {UPSTREAM_NAME}.zip; run r streams to a temp file  *)
(* named with its own random hex string.                                   *)
(***************************************************************************)
Absent == -1

RunIds == 1..MaxRuns

\* const _path = path.join(context.storagePath, `${UPSTREAM_NAME}.zip`)
Canonical == <<"zip">>

\* A mutant of TempFile: the stream is written to the canonical path itself.
TempFile_canonical(r) == Canonical

\* const tempFile = path.join(storagePath, `${UPSTREAM_NAME}-${randomHex}.zip`)
TempFile(r) == <<"tmp", r>>

FileNames == {Canonical} \cup {<<"tmp", r>> : r \in RunIds}

\* VSCODE_BLACK_FORMATTER_VERSION, and the tag of an earlier release.
CurrentTag == "current"
OldTag == "old"

\* The install directory when it does not exist.
NoDir ==
  [exists |-> FALSE, version |-> "none", manifest |-> FALSE, bundled |-> FALSE,
   venv |-> FALSE, venvFiles |-> {}]

\* The archive's single top-level directory as unpacked: the dependency
\* manifest and the bundled script tree, no version marker, no environment.
Unpacked ==
  [exists |-> TRUE, version |-> "none", manifest |-> TRUE, bundled |-> TRUE,
   venv |-> FALSE, venvFiles |-> {}]

(***************************************************************************)
(* Executables of a virtual environment: <<bin directory, name, suffix>>.  *)
(***************************************************************************)
StartsWithMINGW(os) == os = "MINGW64_NT"

PlatformOf(os) == IF os = "Linux" THEN "linux" ELSE "win32"

\* binDir and ext as getVenvPythonPath computes them.
VenvBinDir(plat, os) ==
  IF plat = "win32" /\ ~StartsWithMINGW(os) THEN "Scripts" ELSE "bin"

VenvExt(plat) == IF plat = "win32" THEN ".exe" ELSE ""

\* getVenvPythonPath(storagePath, venvName), relative to the venv root
getVenvPythonPath(plat, os) == <<VenvBinDir(plat, os), "python", VenvExt(plat)>>

\* What `python -m venv` and pip lay down for an interpreter of a flavour.
CreatedExecutable(flavour, name) ==
  IF flavour = "native" THEN <<"Scripts", name, ".exe">>
  ELSE IF flavour = "msys2" THEN <<"bin", name, ".exe">>
  ELSE <<"bin", name, "">>

cur == Len(runs)

Running == runs # <<>> /\ runs[cur].pc # "done"

At(pc) == runs # <<>> /\ runs[cur].pc = pc

Undefined == [kind |-> "undefined", val |-> <<>>]

\* `fs.existsSync(fullPath) ? fullPath : executableName`, the second branch
MissingExecutable(executableName) == [kind |-> "name", val |-> <<executableName>>]

\* A mutant of ResolverBinDir: the MINGW test is left out.
ResolverBinDir_noMingwTest(plat, os) == IF plat = "win32" THEN "Scripts" ELSE "bin"

\* binDir and ext as getVenvExecutable computes them, in tool.ts.
ResolverBinDir(plat, os) ==
  IF plat = "win32" /\ ~StartsWithMINGW(os) THEN "Scripts" ELSE "bin"

ResolverExt(plat) == IF plat = "win32" THEN ".exe" ELSE ""

\* const fullPath = path.join(venvBase, binDir, `${executableName}${ext}`),
\* relative to the venv root
ResolverPath(plat, os, executableName) ==
  <<ResolverBinDir(plat, os), executableName, ResolverExt(plat)>>

\* getVenvExecutable(context, executableName)
getVenvExecutable(executableName) ==
  IF useGlobalCommand
  THEN IF executableName \in host.onPath
       THEN [kind |-> "path", val |-> <<"sys", executableName>>]
       ELSE [kind |-> "empty", val |-> <<>>]
  ELSE LET fullPath == ResolverPath(platform, host.osName, executableName)
       IN IF dir.exists /\ dir.venv /\ fullPath \in dir.venvFiles
          THEN [kind |-> "path", val |-> fullPath]
          ELSE MissingExecutable(executableName)

\* getBlackLspBlackPath / getBlackLspServerInterpreterPath: the resolver is
\* called with the name of the tool or of the interpreter when the client is
\* created, while no install run is in progress.  resolved holds the result
\* of the call just made; the next invocation of the command clears it.
Resolve(executableName) ==
  /\ ~Running
  /\ resolved' = [name |-> executableName,
                  result |-> getVenvExecutable(executableName),
                  managed |-> ~useGlobalCommand,
                  onDisk |-> IF useGlobalCommand THEN {}
                             ELSE IF dir.exists /\ dir.venv THEN dir.venvFiles ELSE {}]
  /\ UNCHANGED <<host, useGlobalCommand, files, base, dir, runs>>

\* getPythonPath(): the configured or found interpreter, '' when none is
\* found; realpathSync throws when the configured path does not exist.
getPythonPath ==
  IF host.python = "badconfig" THEN "throws"
  ELSE IF "python" \in host.onPath THEN "found" ELSE "empty"

(***************************************************************************)
(* The install command.  Runs are serial: a run starts when none is in     *)
(* progress.  cur is the run in progress; each run logs the pipeline steps *)
(* it starts and how each ends.                                            *)
(***************************************************************************)
\* The run moves to pc with its log extended by the events evs.
Goto(pc, evs) ==
  runs' = [runs EXCEPT ![cur].pc = pc, ![cur].log = @ \o evs]

Finish(outcome, evs) ==
  runs' = [runs EXCEPT ![cur].pc = "done", ![cur].outcome = outcome,
                       ![cur].log = @ \o evs]

Ev(step, ev) == [step |-> step, ev |-> ev]

NoResult == [name |-> "none", result |-> Undefined, managed |-> FALSE, onDisk |-> {}]

\* The command is invoked: useGlobal is read from the configuration.
StartRun ==
  /\ ~Running
  /\ Len(runs) < MaxRuns
  /\ runs' = Append(runs, [pc |-> "prompt", useGlobal |-> useGlobalCommand,
                           python |-> "none", outcome |-> "running",
                           resp |-> "none",
                           markerMatched |-> dir.exists /\ dir.version = CurrentTag,
                           log |-> <<>>])
  /\ resolved' = NoResult
  /\ UNCHANGED <<host, useGlobalCommand, files, base, dir>>

\* const ret = await window.showPrompt(msg)
Prompt(ret) ==
  /\ At("prompt")
  /\ IF ret THEN Goto("lookup", <<>>) ELSE Finish("declined", <<>>)
  /\ UNCHANGED <<host, useGlobalCommand, files, base, dir, resolved>>

\* A mutant of AfterLookup: a matching version marker skips the pipeline.
AfterLookup_versionCheck(useGlobal) ==
  IF dir.exists /\ dir.version = CurrentTag THEN "restart"
  ELSE IF useGlobal THEN "dlscript" ELSE "fetch"

\* A mutant of AfterLookup: the archive pipeline runs in global mode too.
AfterLookup_alwaysArchive(useGlobal) == "fetch"

\* if (useGlobal) doDownloadServerScript else doDownload, doExtract
AfterLookup(useGlobal) == IF useGlobal THEN "dlscript" ELSE "fetch"

\* const pythonCommand = getPythonPath()
Lookup ==
  /\ At("lookup")
  /\ IF getPythonPath = "throws"
     THEN Finish("threw", <<>>)
     ELSE runs' = [runs EXCEPT ![cur].pc = AfterLookup(runs[cur].useGlobal),
                               ![cur].python = getPythonPath]
  /\ UNCHANGED <<host, useGlobalCommand, files, base, dir, resolved>>

\* await doDownloadServerScript(context).catch((er) => { throw er })
DownloadScript(ok) ==
  /\ At("dlscript")
  /\ IF ok
     THEN /\ dir' = [dir EXCEPT !.exists = TRUE, !.bundled = TRUE]
          /\ Goto("install", <<Ev("script", "start"), Ev("script", "ok")>>)
     ELSE /\ dir' = dir
          /\ Finish("threw", <<Ev("script", "start"), Ev("script", "fail")>>)
  /\ UNCHANGED <<host, useGlobalCommand, files, base, resolved>>

\* What `await fetch(downloadUrl)` gives: a successful response, an
\* unsuccessful one, or a rejection (no response at all).
Responses == {"ok", "notok", "neterror"}

\* A mutant of ResponseOk: the status of the response is not tested.
ResponseOk_untested(resp) == TRUE

\* resp.ok
ResponseOk(resp) == resp = "ok"

\* doDownload up to createWriteStream: the fetch and the resp.ok test.
\* The throw of `if (!resp.ok)` and a rejected fetch both leave doDownload
\* before tempFile is computed or opened.
Fetch(resp) ==
  /\ At("fetch")
  /\ IF resp # "neterror" /\ ResponseOk(resp)
     THEN /\ files' = [files EXCEPT ![TempFile(cur)] = 0]
          /\ runs' = [runs EXCEPT ![cur].pc = "stream", ![cur].resp = resp,
                                  ![cur].log = @ \o <<Ev("download", "start")>>]
     ELSE /\ files' = files
          /\ runs' = [runs EXCEPT ![cur].pc = "extract", ![cur].resp = resp,
                                  ![cur].log = @ \o <<Ev("download", "start"),
                                                      Ev("download", "fail")>>]
  /\ UNCHANGED <<host, useGlobalCommand, base, dir, resolved>>

\* A mutant of AfterPipeline: the handler goes on to doExtract as soon as
\* the stream has ended, without the promotion of the temp file.
AfterPipeline_notAwaited == "extract"

\* What doDownload does after `await pipeline(...)` and the close of the
\* stream: the unlink of the canonical archive, then the rename.
AfterPipeline == "unlink"

\* await pipeline(resp.body, destFileStream): one chunk, or a stream error.
Stream(ok) ==
  /\ At("stream")
  /\ IF ok
     THEN /\ files' = [files EXCEPT ![TempFile(cur)] = @ + 1]
          /\ IF files'[TempFile(cur)] = ArchiveLen
             THEN Goto(AfterPipeline, <<>>)
             ELSE Goto("stream", <<>>)
     ELSE /\ files' = files
          /\ Goto("extract", <<Ev("download", "fail")>>)
  /\ UNCHANGED <<host, useGlobalCommand, base, dir, resolved>>

\* await fs.promises.unlink(_path).catch(ENOENT is tolerated)
Unlink(ok) ==
  /\ At("unlink")
  /\ IF files[Canonical] = Absent \/ ok
     THEN /\ files' = [files EXCEPT ![Canonical] = Absent]
          /\ Goto("rename", <<>>)
     ELSE /\ files' = files
          /\ Goto("extract", <<Ev("download", "fail")>>)
  /\ UNCHANGED <<host, useGlobalCommand, base, dir, resolved>>

\* await fs.promises.rename(tempFile, _path)
Rename(ok) ==
  /\ At("rename")
  /\ IF ok
     THEN /\ files' = [files EXCEPT ![Canonical] = files[TempFile(cur)],
                                    ![TempFile(cur)] = Absent]
          /\ Goto("extract", <<Ev("download", "ok")>>)
     ELSE /\ files' = files
          /\ Goto("extract", <<Ev("download", "fail")>>)
  /\ UNCHANGED <<host, useGlobalCommand, base, dir, resolved>>

\* doExtract up to `await extract`: rimraf.sync(targetPath), then the test
\* fs.existsSync(zipPath).
\* A rimraf.sync(targetPath) that throws part way (a file of the
\* environment is held open): the files at the top of the install
\* directory are gone, the environment is still there.
RimrafPartial(d) ==
  [d EXCEPT !.version = "none", !.manifest = FALSE, !.bundled = FALSE]

ExtractStart(ok) ==
  /\ At("extract")
  /\ IF dir.exists /\ dir.venv /\ ~ok
     THEN /\ dir' = RimrafPartial(dir)
          /\ Goto("install", <<Ev("extract", "start"), Ev("extract", "fail")>>)
     ELSE /\ dir' = NoDir
          /\ IF files[Canonical] # Absent
             THEN Goto("extracting", <<Ev("extract", "start")>>)
             ELSE Goto("install", <<Ev("extract", "start"), Ev("extract", "ok")>>)
  /\ UNCHANGED <<host, useGlobalCommand, files, base, resolved>>

\* A mutant of Installed: no version marker is written.
Installed_noMarker(unpacked) == unpacked

\* fs.writeFileSync(versionTxtFilePath, `tag: ${VERSION}`), then
\* fs.renameSync(extractedBasePath, targetPath): the install directory is
\* the unpacked top-level directory with the version marker in it.
Installed(unpacked) == [unpacked EXCEPT !.version = CurrentTag]

\* `await extract(...)` ends; on success the version marker is written, the
\* unpacked directory renamed to the install directory, the archive removed.
Extracting(ok) ==
  /\ At("extracting")
  /\ IF ok
     THEN /\ dir' = Installed(Unpacked)
          /\ base' = FALSE
          /\ files' = [files EXCEPT ![Canonical] = Absent]
          /\ Goto("install", <<Ev("extract", "ok")>>)
     ELSE /\ base' = TRUE
          /\ UNCHANGED <<dir, files>>
          /\ Goto("install", <<Ev("extract", "fail")>>)
  /\ UNCHANGED <<host, useGlobalCommand, resolved>>

\* How a call of spawnAsync ends: its promise resolves (exit code 0), or it
\* rejects because the process could not be started or because it exited
\* with another code.
SpawnOutcomes == {"resolved", "error", "nonzero"}

\* A mutant of AfterVenv: the failure of the environment creation is caught
\* and doInstall goes on to the dependency install.
AfterVenv_swallowed(res) == "pip"

\* The two awaits in doInstall's try block: the second spawnAsync is reached
\* only when the first has resolved; a rejection goes to the catch block.
AfterVenv(res) == IF res = "resolved" THEN "pip" ELSE "restart"

\* rimraf.sync(venvRoot)
RemoveVenv(d) == [d EXCEPT !.venv = FALSE, !.venvFiles = {}]

\* A mutant of AfterManifestTest: the old environment is removed before
\* the manifest is looked for.
AfterManifestTest_removeFirst(d) == RemoveVenv(d)

\* The install directory after `if (!fs.existsSync(requirementsTxtPath))
\* throw` and rimraf.sync(venvRoot): the throw leaves before the removal.
AfterManifestTest(d) == IF d.exists /\ d.manifest THEN RemoveVenv(d) ELSE d

\* doInstall up to and with the first spawn: the useGlobal return, the
\* manifest test, rimraf.sync(venvRoot), spawnAsync(pythonCommand, ...).
InstallStart ==
  /\ At("install")
  /\ IF useGlobalCommand
     THEN /\ dir' = dir
          /\ Goto("restart", <<Ev("provision", "start"), Ev("provision", "ok")>>)
     ELSE /\ dir' = AfterManifestTest(dir)
          /\ IF ~(dir.exists /\ dir.manifest)
             THEN Goto("restart", <<Ev("provision", "start"), Ev("provision", "fail")>>)
             ELSE Goto("venv", <<Ev("provision", "start"), Ev("venv", "spawn")>>)
  /\ UNCHANGED <<host, useGlobalCommand, files, base, resolved>>

\* await spawnAsync(pythonCommand, ['-m', 'venv', venvRoot]) ends; when it
\* has resolved, spawnAsync(venvPython, ['-m', 'pip', ...]) is called.  An
\* empty pythonCommand (no interpreter found) cannot be spawned.
Venv(out) ==
  /\ At("venv")
  /\ LET res == IF runs[cur].python = "found" THEN out ELSE "error" IN
     /\ dir' = IF res = "resolved"
               THEN [dir EXCEPT !.venv = TRUE,
                       !.venvFiles = {CreatedExecutable(host.flavour, "python")}]
               ELSE dir
     /\ IF AfterVenv(res) = "pip"
        THEN Goto("pip", <<Ev("venv", res), Ev("pip", "spawn")>>)
        ELSE Goto("restart", <<Ev("venv", res), Ev("provision", "fail")>>)
  /\ UNCHANGED <<host, useGlobalCommand, files, base, resolved>>

\* await spawnAsync(venvPython, ['-m', 'pip', 'install', '-r', manifest])
\* ends; venvPython cannot be spawned when it is not on disk.
Pip(out) ==
  /\ At("pip")
  /\ LET res == IF getVenvPythonPath(platform, host.osName) \in dir.venvFiles
                THEN out ELSE "error" IN
     IF res = "resolved"
     THEN /\ dir' = [dir EXCEPT
                       !.venvFiles = @ \cup {CreatedExecutable(host.flavour, "black")}]
          /\ Goto("restart", <<Ev("pip", res), Ev("provision", "ok")>>)
     ELSE /\ dir' = dir
          /\ Goto("restart", <<Ev("pip", res), Ev("provision", "fail")>>)
  /\ UNCHANGED <<host, useGlobalCommand, files, base, resolved>>

\* commands.executeCommand('editor.action.restart')
Restart ==
  /\ At("restart")
  /\ Finish("restarted", <<>>)
  /\ UNCHANGED <<host, useGlobalCommand, files, base, dir, resolved>>

\* The steps of a run during which something is being written to the disk:
\* the stream to the temp file, the promotion of the archive, the extraction
\* and the two child processes.
InFlight == {"stream", "unlink", "rename", "extracting", "venv", "pip"}

\* The process is killed while such a step is in flight; an extraction in
\* progress may have left the unpacked directory behind.
Interrupt ==
  /\ Running
  /\ runs[cur].pc \in InFlight
  /\ Finish("interrupted", <<>>)
  /\ IF At("extracting") THEN base' \in BOOLEAN ELSE base' = base
  /\ UNCHANGED <<host, useGlobalCommand, files, dir, resolved>>

(***************************************************************************)
(* The process runner, spawnAsync(command, args).  runner is one call: the *)
(* child's state, the two buffers and the promise.  A chunk of data is one *)
(* token; at most MaxData chunks arrive on each stream.                    *)
(***************************************************************************)
\* pythonCommand and venvPython of doInstall, a command that does not exist
\* and the empty string that getPythonPath returns when it finds none.
RunnerCommands == {"python", "venvPython", "missing", ""}

RunnerArgs == { <<"-m", "venv", "venvRoot">>,
                <<"-m", "pip", "install", "-r", "requirements.txt">> }

\* The (code, signal) pairs of a 'close' event: a normal exit, a nonzero exit,
\* the death by a signal, and the close that follows a failed spawn.
RunnerCloseEvents(child) ==
  IF child = "running"
  THEN { [code |-> "0", signal |-> "null"],
         [code |-> "1", signal |-> "null"],
         [code |-> "null", signal |-> "SIGKILL"] }
  ELSE IF child = "errored" THEN { [code |-> "-2", signal |-> "null"] }
       ELSE {}

Pending == [state |-> "pending", value |-> [kind |-> "none"]]

\* resolve(value) and reject(value): a settled promise stays as it is.
Settle(promise, state, value) ==
  IF promise.state = "pending" THEN [state |-> state, value |-> value] ELSE promise

\* resolve({ stdout, stderr })
RunnerResult(stdout, stderr) ==
  [kind |-> "result", stdout |-> stdout, stderr |-> stderr]

\* The Error built in the 'close' handler: its message holds the code, the
\* arguments and stderr; code, stdout and stderr are attached to it.  The
\* handler takes the code only, so nothing of the signal is in it.
RunnerFailure(code, args, stdout, stderr) ==
  [kind |-> "Error",
   message |-> [code |-> code, args |-> args, stderr |-> stderr],
   code |-> code, stdout |-> stdout, stderr |-> stderr]

\* The error of the 'error' event, or the one spawn throws for an empty
\* command: the promise is rejected with it as it is.
SpawnError(errno) == [kind |-> "SpawnError", errno |-> errno]

RunnerIdle ==
  runner = [pc |-> "idle", command |-> "", args |-> <<>>, child |-> "none",
            spawned |-> 0, stdout |-> <<>>, stderr |-> <<>>,
            exit |-> [code |-> "none", signal |-> "none"], promise |-> Pending]

\* spawnAsync(command, args): the executor spawns the child and registers
\* the handlers; spawn throws when the command is the empty string, which
\* rejects the promise.
spawnAsync(command, args) ==
  /\ runner.pc = "idle"
  /\ runner' = IF command = ""
               THEN [runner EXCEPT !.pc = "called", !.command = command,
                                   !.args = args,
                                   !.promise = Settle(@, "rejected",
                                                      SpawnError("ERR_INVALID_ARG_VALUE"))]
               ELSE [runner EXCEPT !.pc = "called", !.command = command,
                                   !.args = args, !.child = "running",
                                   !.spawned = @ + 1]

\* child.stdout.on('data', ...): stdout += data.toString()
StdoutData ==
  /\ runner.child = "running"
  /\ Len(runner.stdout) < MaxData
  /\ runner' = [runner EXCEPT !.stdout = Append(@, "out")]

\* child.stderr.on('data', ...): stderr += data.toString()
StderrData ==
  /\ runner.child = "running"
  /\ Len(runner.stderr) < MaxData
  /\ runner' = [runner EXCEPT !.stderr = Append(@, "err")]

\* child.on('error', (err) => reject(err)): the command could not be started.
RunnerError ==
  /\ runner.child = "running"
  /\ runner.command = "missing"
  /\ runner.stdout = <<>> /\ runner.stderr = <<>>
  /\ runner' = [runner EXCEPT !.child = "errored",
                              !.promise = Settle(@, "rejected", SpawnError("ENOENT"))]

\* child.on('close', (code) => ...)
RunnerClose(ev) ==
  /\ ev \in RunnerCloseEvents(runner.child)
  /\ runner.command = "missing" => runner.child = "errored"
  /\ runner' = [runner EXCEPT
       !.child = "closed",
       !.exit = ev,
       !.promise =
          IF ev.code = "0"
          THEN Settle(@, "resolved", RunnerResult(runner.stdout, runner.stderr))
          ELSE Settle(@, "rejected",
                      RunnerFailure(ev.code, runner.args, runner.stdout, runner.stderr))]

(***************************************************************************)
(* The language client (client.ts).  createLanguageClient reads the        *)
(* configuration and the resolver's results, which are inputs here: the    *)
(* interpreter and the tool path that getVenvExecutable returned and the   *)
(* script path that getBundledFilePath returned.  Interpreters are path    *)
(* arguments of the detector, script and tool paths are strings of the     *)
(* translator; NoPath and NoInterpreter are the empty string or undefined. *)
(***************************************************************************)
NoPath == <<>>

NoInterpreter == [abs |-> FALSE, segs |-> <<>>]

ClientInterpreters ==
  { [abs |-> TRUE, segs |-> <<"usr", "bin", "python">>],
    [abs |-> TRUE, segs |-> <<"opt", "python">>] }

BundledScript == <<"C", ":", "\\", "a">>
DevScript == <<"D", ":", "/", "a">>
ManagedTool == <<"C", ":", "\\", "1">>
BareToolName == <<"a">>
ConfiguredTool == <<"D", ":", "\\", "1">>

Configs ==
  [ devServerInterpreter : {NoInterpreter} \cup ClientInterpreters,
    devServerScript : {NoPath, DevScript},
    interpreterPath : ClientInterpreters,       \* getBlackLspServerInterpreterPath
    scriptPath : {NoPath, BundledScript},       \* getBlackLspServerScriptPath
    blackPath : {ManagedTool, BareToolName},    \* getBlackLspBlackPath
    useDetectBlackCommand : BOOLEAN,
    path : {<<>>, <<ConfiguredTool>>} ]         \* settings.get('path')

\* isMsys ? toMsys2Path(scriptPath) : path.resolve(scriptPath), the return
\* statement of getScriptPathForPython
SelectPath(isMsys, scriptPath) ==
  IF isMsys THEN toMsys2Path(platform, scriptPath)
  ELSE Ok(ResolveString(platform, scriptPath))

NoClient ==
  [pc |-> "idle", serverInterpreter |-> NoInterpreter, serverScript |-> NoPath,
   call |-> 0, finalServerScript |-> NoPath, path |-> <<>>]

\* createLanguageClient up to its first await: the interpreter and the
\* script are chosen, and getScriptPathForPython calls isMsys2Python.
createLanguageClient ==
  /\ client.pc = "idle"
  /\ LET serverInterpreter ==
           IF config.devServerInterpreter # NoInterpreter
           THEN config.devServerInterpreter ELSE config.interpreterPath
         serverScript ==
           IF config.devServerScript # NoPath
           THEN config.devServerScript ELSE config.scriptPath
     IN IF serverInterpreter = NoInterpreter \/ serverScript = NoPath
        THEN /\ client' = [client EXCEPT !.pc = "noclient"]
             /\ UNCHANGED detVars
        ELSE /\ isMsys2Python(serverInterpreter)
             /\ client' = [client EXCEPT !.pc = "awaitScript",
                                         !.serverInterpreter = serverInterpreter,
                                         !.serverScript = serverScript,
                                         !.call = Len(calls) + 1]
  /\ UNCHANGED config

\* The detection awaited by getScriptPathForPython has settled: the function
\* returns or throws, createLanguageClient goes on to
\* getInitializationOptions, which calls getScriptPathForPython for the tool
\* when useDetectBlackCommand is set and no path is configured.
ScriptSelected ==
  /\ client.pc = "awaitScript"
  /\ calls[client.call].result # "none"
  /\ LET isMsys == calls[client.call].result = "true"
         final == SelectPath(isMsys, client.serverScript)
     IN IF calls[client.call].result = "fail" \/ ~final.ok
        THEN /\ client' = [client EXCEPT !.pc = "rejected"]
             /\ UNCHANGED detVars
        ELSE IF config.useDetectBlackCommand /\ config.path = <<>>
        THEN /\ isMsys2Python(config.interpreterPath)
             /\ client' = [client EXCEPT !.pc = "awaitTool",
                                         !.finalServerScript = final.val,
                                         !.call = Len(calls) + 1]
        ELSE /\ client' = [client EXCEPT !.pc = "created",
                                         !.finalServerScript = final.val,
                                         !.path = config.path]
             /\ UNCHANGED detVars
  /\ UNCHANGED config

\* The detection awaited for the tool path has settled; the client is
\* created with serverOptions and initializationOptions.
ToolSelected ==
  /\ client.pc = "awaitTool"
  /\ calls[client.call].result # "none"
  /\ LET isMsys == calls[client.call].result = "true"
         envToolCommandPath == SelectPath(isMsys, config.blackPath)
     IN IF calls[client.call].result = "fail" \/ ~envToolCommandPath.ok
        THEN client' = [client EXCEPT !.pc = "rejected"]
        ELSE client' = [client EXCEPT !.pc = "created",
                                      !.path = <<envToolCommandPath.val>>]
  /\ UNCHANGED <<config, detVars>>

ClientIdle ==
  /\ config = [devServerInterpreter |-> NoInterpreter, devServerScript |-> NoPath,
               interpreterPath |-> [abs |-> TRUE, segs |-> <<"opt", "python">>],
               scriptPath |-> NoPath, blackPath |-> BareToolName,
               useDetectBlackCommand |-> FALSE, path |-> <<>>]
  /\ client = [NoClient EXCEPT !.pc = "none"]

Hosts ==
  { h \in [osName : {"Windows_NT", "MINGW64_NT", "Linux"},
           flavour : {"native", "msys2", "posix"},
           onPath : {{}, {"python"}, {"python", "black"}},
           python : {"ok", "badconfig"}] :
      /\ h.osName = "Linux" <=> h.flavour = "posix"
      /\ h.osName = "MINGW64_NT" => h.flavour = "msys2"
      /\ h.python = "badconfig" => h.onPath = {} }

\* An install left by an earlier release of the extension on this host.
OldInstall(h) ==
  [exists |-> TRUE, version |-> OldTag, manifest |-> TRUE, bundled |-> TRUE,
   venv |-> TRUE,
   venvFiles |-> {CreatedExecutable(h.flavour, "python"),
                  CreatedExecutable(h.flavour, "black")}]

\* Whether black is on PATH is read in global mode only (which.sync in
\* getVenvExecutable); in managed mode the hosts without it stand for both.
InstInit ==
  /\ host \in Hosts
  /\ useGlobalCommand \in BOOLEAN
  /\ ~useGlobalCommand => "black" \notin host.onPath
  /\ files = [f \in FileNames |-> Absent]
  /\ base = FALSE
  /\ dir \in {NoDir, OldInstall(host)}
  /\ runs = <<>>
  /\ resolved = NoResult

InstIdle ==
  /\ host = [osName |-> "Linux", flavour |-> "posix", onPath |-> {}, python |-> "ok"]
  /\ useGlobalCommand = FALSE
  /\ files = [f \in FileNames |-> Absent]
  /\ base = FALSE
  /\ dir = NoDir
  /\ runs = <<>>
  /\ resolved = NoResult

DetInit ==
  /\ pythonTypeCache = <<>>
  /\ probes = <<>>
  /\ calls = <<>>

PathIdle ==
  /\ platform = "linux"
  /\ pathIn = <<>>
  /\ pathOut = Thrown
  /\ pathTwice = Thrown
  /\ pathPc = "idle"

InitDetect == DetInit /\ PathIdle /\ InstIdle /\ ClientIdle /\ RunnerIdle

NextDetect ==
  \/ \E a \in PythonArgs : isMsys2Python(a) /\ UNCHANGED <<pathVars, instVars, clientVars, runVars>>
  \/ \E i \in 1..Len(probes) : ChildError(i) /\ UNCHANGED <<pathVars, instVars, clientVars, runVars>>
  \/ \E i \in 1..Len(probes) : \E ev \in CloseEvents(probes[i].child) :
       \E o \in ProbeOutputs : ChildClose(i, ev, o) /\ UNCHANGED <<pathVars, instVars, clientVars, runVars>>

SpecDetect == InitDetect /\ [][NextDetect]_vars

InitPath ==
  /\ DetInit
  /\ InstIdle
  /\ ClientIdle
  /\ RunnerIdle
  /\ platform \in Platforms
  /\ pathIn \in Strings
  /\ pathOut = Thrown
  /\ pathTwice = Thrown
  /\ pathPc = "input"

NextPath ==
  \/ Translate /\ UNCHANGED <<detVars, instVars, clientVars, runVars>>
  \/ TranslateAgain /\ UNCHANGED <<detVars, instVars, clientVars, runVars>>

SpecPath == InitPath /\ [][NextPath]_vars

InitInstall ==
  /\ DetInit
  /\ InstInit
  /\ ClientIdle
  /\ RunnerIdle
  /\ platform = PlatformOf(host.osName)
  /\ pathIn = <<>>
  /\ pathOut = Thrown
  /\ pathTwice = Thrown
  /\ pathPc = "idle"

Others == UNCHANGED <<detVars, pathVars, clientVars, runVars>>

NextInstall ==
  \/ StartRun /\ Others
  \/ \E ret \in BOOLEAN : Prompt(ret) /\ Others
  \/ Lookup /\ Others
  \/ \E ok \in BOOLEAN : DownloadScript(ok) /\ Others
  \/ \E resp \in Responses : Fetch(resp) /\ Others
  \/ \E ok \in BOOLEAN : Stream(ok) /\ Others
  \/ \E ok \in BOOLEAN : Unlink(ok) /\ Others
  \/ \E ok \in BOOLEAN : Rename(ok) /\ Others
  \/ \E ok \in BOOLEAN : ExtractStart(ok) /\ Others
  \/ \E ok \in BOOLEAN : Extracting(ok) /\ Others
  \/ InstallStart /\ Others
  \/ \E out \in SpawnOutcomes : Venv(out) /\ Others
  \/ \E out \in SpawnOutcomes : Pip(out) /\ Others
  \/ Restart /\ Others
  \/ Interrupt /\ Others
  \/ \E n \in {"python", "black"} : Resolve(n) /\ Others

SpecInstall == InitInstall /\ [][NextInstall]_vars

InitClient ==
  /\ DetInit
  /\ InstIdle
  /\ platform = "win32"
  /\ pathIn = <<>>
  /\ pathOut = Thrown
  /\ pathTwice = Thrown
  /\ pathPc = "idle"
  /\ config \in Configs
  /\ client = NoClient
  /\ RunnerIdle

NextClient ==
  \/ createLanguageClient /\ UNCHANGED <<pathVars, instVars, runVars>>
  \/ ScriptSelected /\ UNCHANGED <<pathVars, instVars, runVars>>
  \/ ToolSelected /\ UNCHANGED <<pathVars, instVars, runVars>>
  \/ \E i \in 1..Len(probes) : ChildError(i) /\ UNCHANGED <<pathVars, instVars, clientVars, runVars>>
  \/ \E i \in 1..Len(probes) : \E ev \in CloseEvents(probes[i].child) :
       \E o \in ProbeOutputs :
         ChildClose(i, ev, o) /\ UNCHANGED <<pathVars, instVars, clientVars, runVars>>

SpecClient == InitClient /\ [][NextClient]_vars

InitRunner ==
  /\ DetInit
  /\ PathIdle
  /\ InstIdle
  /\ ClientIdle
  /\ RunnerIdle

NextRunner ==
  \/ \E c \in RunnerCommands : \E a \in RunnerArgs :
       spawnAsync(c, a) /\ UNCHANGED <<detVars, pathVars, instVars, clientVars>>
  \/ StdoutData /\ UNCHANGED <<detVars, pathVars, instVars, clientVars>>
  \/ StderrData /\ UNCHANGED <<detVars, pathVars, instVars, clientVars>>
  \/ RunnerError /\ UNCHANGED <<detVars, pathVars, instVars, clientVars>>
  \/ \E ev \in RunnerCloseEvents(runner.child) :
       RunnerClose(ev) /\ UNCHANGED <<detVars, pathVars, instVars, clientVars>>

SpecRunner == InitRunner /\ [][NextRunner]_vars

(***************************************************************************)
(* Claims about the detector (checked under SpecDetect)                    *)
(***************************************************************************)
CallIds == 1..Len(calls)

\* c2 was issued while the probe behind c1's promise was still pending.
Overlaps(c1, c2) == c1 # c2 /\ calls[c1].promise \in calls[c2].live

\* C1: overlapping detector calls with the same cache key never have two
\* probes pending for that key; a call issued while a probe of its key is
\* pending spawns nothing and is given that probe's promise; and any two
\* overlapping calls that have both settled saw the same outcome (the same
\* boolean, or both a failure).
C1_SingleFlight ==
  /\ \A i, j \in 1..Len(probes) :
       (probes[i].key = probes[j].key /\ probes[i].state = "pending"
          /\ probes[j].state = "pending") => i = j
  /\ \A c \in CallIds :
       calls[c].live # {} => ~calls[c].spawned /\ calls[c].promise \in calls[c].live
  /\ \A c1, c2 \in CallIds :
       (Overlaps(c1, c2) /\ calls[c1].result # "none" /\ calls[c2].result # "none")
         => calls[c1].result = calls[c2].result

\* C1's case: MaxCalls calls of one key, through different arguments, all but
\* the first issued while the probe was pending, all settled, one probe spawned.
C1_Witness ==
  /\ Len(calls) = MaxCalls
  /\ Len(probes) = 1
  /\ \A c \in CallIds : calls[c].result = "true"
  /\ \A c \in CallIds : c > 1 => Overlaps(1, c)
  /\ \E c \in CallIds : calls[c].arg # calls[1].arg

\* C2: whenever a probe has failed (nonzero exit, timeout or spawn error) the
\* cache no longer holds its promise under its key.
C2_FailedProbeEvicted ==
  \A i \in 1..Len(probes) :
    probes[i].state = "rejected"
      => ~(probes[i].key \in DOMAIN pythonTypeCache
             /\ pythonTypeCache[probes[i].key] = i)

InPosixForm(p) == Len(p) >= 3 /\ p[1] = "/" /\ p[2] \in Letters /\ p[3] = "/"

\* p is written {letter}:{separator}{rest}.
InNativeForm(p) == Len(p) >= 3 /\ p[1] \in Letters /\ p[2] = ":" /\ IsPathSeparator(p[3])

\* out is rest with the separators at its start removed and every backslash
\* turned into a forward slash.
IsCanonicalRest(rest, out) ==
  \E k \in 0..Len(rest) :
    /\ \A i \in 1..k : IsPathSeparator(rest[i])
    /\ k < Len(rest) => ~IsPathSeparator(rest[k + 1])
    /\ Len(out) = Len(rest) - k
    /\ \A i \in 1..Len(out) :
         out[i] = (IF rest[k + i] = "\\" THEN "/" ELSE rest[k + i])

\* C9 as stated: for p already in the form /{letter}/{rest}, toMsys2Path(p)
\* is p with only the drive letter lower-cased, and toMsys2Path of that
\* output is the output.
C9_PosixFormOnlyDriveLowered ==
  (pathPc \in {"once", "twice"} /\ InPosixForm(pathIn))
    => /\ pathOut = Ok(<<"/", ToLowerCase(pathIn[2])>> \o SubSeq(pathIn, 3, Len(pathIn)))
       /\ pathPc = "twice" => pathTwice = pathOut

\* C9 amended: for p in the form /{letter}/{rest}, toMsys2Path(p) is
\* /{lower-cased letter}/{rest'} where rest' is rest with the separators at
\* its start removed and every backslash turned into a forward slash (so it
\* is p with only the letter lower-cased when rest has no backslash and does
\* not begin with a separator); toMsys2Path of that output is the output.
C9_PosixFormCanonical ==
  (pathPc \in {"once", "twice"} /\ InPosixForm(pathIn))
    => /\ pathOut.ok
       /\ Len(pathOut.val) >= 3
       /\ SubSeq(pathOut.val, 1, 3) = <<"/", ToLowerCase(pathIn[2]), "/">>
       /\ IsCanonicalRest(SubSeq(pathIn, 4, Len(pathIn)),
                          SubSeq(pathOut.val, 4, Len(pathOut.val)))
       /\ (\A i \in 4..Len(pathIn) :
              ~IsPathSeparator(pathIn[4]) /\ pathIn[i] # "\\")
            => pathOut.val = <<"/", ToLowerCase(pathIn[2])>>
                               \o SubSeq(pathIn, 3, Len(pathIn))
       /\ pathPc = "twice" => pathTwice = pathOut

\* C9's case: a path in the form with an upper-case drive letter and a rest
\* that begins with a separator has been translated twice.
C9_Witness ==
  /\ pathPc = "twice"
  /\ InPosixForm(pathIn) /\ pathIn[2] = "D"
  /\ Len(pathIn) = 5 /\ pathIn[4] = "/" /\ pathIn[5] = "a"
  /\ pathOut = Ok(<<"/", "d", "/", "a">>)
  /\ pathTwice = pathOut

\* C10: for every native absolute path {letter}:{separator}{rest},
\* toMsys2Path returns /{lower-cased letter}/{rest'} where rest' is rest with
\* its leading separators removed and every backslash turned into a forward
\* slash: no backslash in the output, and rest' never begins with a separator.
C10_NativeToCanonical ==
  (pathPc \in {"once", "twice"} /\ InNativeForm(pathIn))
    => /\ pathOut.ok
       /\ Len(pathOut.val) >= 3
       /\ SubSeq(pathOut.val, 1, 3) = <<"/", ToLowerCase(pathIn[1]), "/">>
       /\ IsCanonicalRest(SubSeq(pathIn, 4, Len(pathIn)),
                          SubSeq(pathOut.val, 4, Len(pathOut.val)))

(***************************************************************************)
(* Claims about the install command and the resolver (checked under        *)
(* SpecInstall)                                                            *)
(***************************************************************************)
PipelineSteps == {"download", "extract", "provision"}

\* The steps a run has started, in order.
RECURSIVE Started(_)
Started(log) ==
  IF log = <<>> THEN <<>>
  ELSE IF Head(log).ev = "start" THEN <<Head(log).step>> \o Started(Tail(log))
       ELSE Started(Tail(log))

\* Run r went through the whole pipeline without a failure.
Succeeded(r) ==
  /\ runs[r].outcome = "restarted"
  /\ \A st \in PipelineSteps :
       \E i \in 1..Len(runs[r].log) : runs[r].log[i] = Ev(st, "ok")
  /\ \A i \in 1..Len(runs[r].log) : runs[r].log[i].ev # "fail"

\* C4: in a run, no pipeline step is started after a step has failed.
C4_FailureAbortsRun ==
  \A r \in 1..Len(runs) :
    \A i, j \in 1..Len(runs[r].log) :
      (i < j /\ runs[r].log[i].ev = "fail") => runs[r].log[j].ev # "start"

C6_CanonicalNeverPartial ==
  /\ [](files[Canonical] \in {Absent, ArchiveLen})
  /\ [][ /\ (files[Canonical] = Absent /\ files'[Canonical] # Absent)
              => /\ At("rename")
                 /\ files[TempFile(cur)] = ArchiveLen
                 /\ files'[Canonical] = ArchiveLen
                 /\ files'[TempFile(cur)] = Absent
         /\ \A f \in FileNames :
              (files'[f] # Absent /\ files'[f] > files[f] /\ ~At("rename"))
                => f # Canonical ]_vars

\* C6's case: an earlier run was cut off in mid-stream, leaving a partly
\* written temp file, and a later run has promoted its complete archive.
C6_Witness ==
  /\ \E r \in RunIds : files[<<"tmp", r>>] \in 1..(ArchiveLen - 1)
  /\ files[Canonical] = ArchiveLen
  /\ \E r \in 1..Len(runs) : runs[r].outcome = "interrupted"
  /\ At("extract")

\* C7: when the canonical archive does not exist, doExtract completes
\* without error and leaves the filesystem as it was, the install directory
\* and its environment included.
C7_MissingArchiveExtractNoOp ==
  [][ (At("extract") /\ files[Canonical] = Absent /\ runs'[cur].pc = "install")
        => /\ dir' = dir /\ files' = files /\ base' = base
           /\ runs'[cur].log[Len(runs'[cur].log)] = Ev("extract", "ok") ]_vars

\* C8: in managed mode the tool-path resolver returns a path only if that
\* executable is on disk in the managed environment, and undefined otherwise
\* (never provisioned included): never a fabricated path or name.
C8_ManagedPathOnlyIfOnDisk ==
  (resolved.name = "black" /\ resolved.managed)
    => \/ resolved.result = Undefined
       \/ /\ resolved.result.kind = "path"
          /\ resolved.result.val \in resolved.onDisk

\* s begins with two backslashes, a server name, separators and a share name.
IsUNC(s) ==
  /\ Len(s) >= 5
  /\ s[1] = "\\" /\ s[2] = "\\"
  /\ \E j \in 4..(Len(s) - 1) :
       /\ \A i \in 3..(j - 1) : ~IsPathSeparator(s[i])
       /\ IsPathSeparator(s[j])
       /\ \E k \in (j + 1)..Len(s) :
            /\ \A i \in j..(k - 1) : IsPathSeparator(s[i])
            /\ ~IsPathSeparator(s[k])

\* s matches none of the three rules on platform plat: it is not in the form
\* /{letter}/{rest} nor {letter}:/{rest} after slash normalisation, and its
\* absolute resolution is not in the form {letter}:/{rest} either.
MatchesNoRule(plat, s) ==
  /\ ~MsysMatch(ReplaceBackslashes(s))
  /\ ~WinMatch(ReplaceBackslashes(s))
  /\ ~WinMatch(ReplaceBackslashes(ResolveString(plat, s)))

\* C11: toMsys2Path of a UNC path, and of any input that matches none of the
\* three rules, fails with an error that names the input as given; such an
\* input is never returned, unchanged or otherwise.
C11_UnrecognizedInputFails ==
  (pathPc \in {"once", "twice"} /\ (IsUNC(pathIn) \/ MatchesNoRule(platform, pathIn)))
    => /\ ~pathOut.ok
       /\ pathOut.val = pathIn

\* C11's case: the UNC path \\a\c has been given to toMsys2Path on Windows,
\* where path.resolve keeps it a UNC path, and the call has thrown.
C11_Witness ==
  /\ pathPc = "once"
  /\ platform = "win32"
  /\ pathIn = <<"\\", "\\", "a", "\\", "c">>
  /\ IsUNC(pathIn)
  /\ ~pathOut.ok /\ pathOut.val = pathIn

\* Run r's log records the event <<step, ev>>.
HasEvent(r, step, ev) ==
  \E i \in 1..Len(runs[r].log) : runs[r].log[i] = Ev(step, ev)

\* The place of a logged event in the pipeline: the download, the
\* extraction, and provisioning with its two processes.
StepRank(step) == IF step = "download" THEN 1 ELSE IF step = "extract" THEN 2 ELSE 3

\* C12: in a managed-mode run the steps are strictly sequential.  Along the
\* run's log the events never go back to an earlier step, and the log moves
\* from one step to the next one only after an event that ends the step
\* (with or without an error): extraction starts only after the download
\* has ended, provisioning only after the extraction has ended.  When
\* extraction is about to start after a download that succeeded, the
\* complete archive is at its canonical name and the temp file is gone; when
\* provisioning is about to start after an extraction that succeeded, the
\* archive is gone and, if the download had succeeded too, the install
\* directory is the unpacked archive with its version marker.
C12_StepsSequential ==
  \A r \in 1..Len(runs) :
    ~runs[r].useGlobal =>
      /\ \A i \in 1..(Len(runs[r].log) - 1) :
           LET this == runs[r].log[i]
               next == runs[r].log[i + 1]
           IN \/ StepRank(next.step) = StepRank(this.step)
              \/ /\ StepRank(next.step) = StepRank(this.step) + 1
                 /\ this.ev \in {"ok", "fail"}
                 /\ next.ev = "start"
      /\ runs[r].log # <<>> => runs[r].log[1] = Ev("download", "start")
      /\ (r = cur /\ At("extract") /\ HasEvent(r, "download", "ok"))
           => /\ files[Canonical] = ArchiveLen
              /\ files[TempFile(r)] = Absent
      /\ (r = cur /\ At("install") /\ HasEvent(r, "extract", "ok"))
           => /\ files[Canonical] = Absent
              /\ HasEvent(r, "download", "ok")
                   => dir = [Unpacked EXCEPT !.version = CurrentTag]

\* C12's case: a managed-mode run has downloaded and promoted the archive,
\* extracted it, and has started provisioning (the environment is being
\* created).
C12_Witness ==
  /\ At("venv")
  /\ ~runs[cur].useGlobal
  /\ Started(runs[cur].log) = <<"download", "extract", "provision">>
  /\ HasEvent(cur, "download", "ok") /\ HasEvent(cur, "extract", "ok")
  /\ files[Canonical] = Absent /\ dir.version = CurrentTag

\* Probe i was killed by the 5 s timeout: its 'close' event carried a null
\* code and the kill signal.
TimedOut(i) == probes[i].exit.kind = "timeout"

\* C13: a probe killed by the timeout has its promise rejected, whatever it
\* had printed; every call that was given that promise has failed, none has
\* resolved to false (or to true).
C13_TimeoutFails ==
  \A i \in 1..Len(probes) :
    TimedOut(i)
      => /\ probes[i].state = "rejected"
         /\ \A c \in CallIds :
              calls[c].promise = i => calls[c].result = "fail"

\* C13's case: a probe was killed by the timeout while two calls awaited it.
C13_Witness ==
  \E i \in 1..Len(probes) :
    /\ TimedOut(i)
    /\ probes[i].exit.signal = "SIGTERM" /\ probes[i].exit.code = "null"
    /\ \E c1, c2 \in CallIds :
         /\ c1 # c2
         /\ calls[c1].promise = i /\ calls[c2].promise = i
         /\ i \in calls[c2].live
         /\ calls[c1].result = "fail" /\ calls[c2].result = "fail"

\* Probe i has completed successfully: its promise is resolved.
Completed(i) == probes[i].state \in {"true", "false"}

\* The tokens of a probe's output that are not white space.
Tokens(output) == SelectSeq(output, LAMBDA t : t \notin WhiteSpace)

\* C14: once a probe of a key has completed successfully, (1) it exited with
\* code 0 and its classification is true exactly when its output was the
\* one token MSYS2; (2) the cache holds it under its key and it is the last
\* probe of that key, any other one being an earlier probe whose entry was
\* evicted; (3) every call that was given its promise has its boolean;
\* (4) in every later step the classification and the cache entry stay, and
\* a detector call for that key spawns no probe and returns that boolean.
C14_SuccessIsMemoized ==
  /\ [](\A i \in 1..Len(probes) :
          Completed(i)
            => /\ probes[i].exit.code = "0" /\ probes[i].exit.signal = "null"
               /\ probes[i].state = "true" <=> Tokens(probes[i].exit.output) = <<"MSYS2">>
               /\ probes[i].key \in DOMAIN pythonTypeCache
               /\ pythonTypeCache[probes[i].key] = i
               /\ \A j \in 1..Len(probes) :
                    (j # i /\ probes[j].key = probes[i].key)
                      => j < i /\ probes[j].evicted
               /\ \A c \in CallIds :
                    calls[c].promise = i => calls[c].result = probes[i].state)
  /\ [][ \A i \in 1..Len(probes) :
           Completed(i)
             => /\ probes'[i].state = probes[i].state
                /\ probes[i].key \in DOMAIN pythonTypeCache'
                /\ pythonTypeCache'[probes[i].key] = i
                /\ (Len(calls') > Len(calls)
                      /\ calls'[Len(calls')].key = probes[i].key)
                     => /\ Len(probes') = Len(probes)
                        /\ ~calls'[Len(calls')].spawned
                        /\ calls'[Len(calls')].promise = i
                        /\ calls'[Len(calls')].result = probes[i].state ]_vars

\* C14's case: after a first probe of a key failed to spawn and was evicted,
\* a second probe of the key completed with MSYS2, and a later call through
\* another argument of that key, made when no probe was pending, returned
\* true without a probe of its own.
C14_Witness ==
  \E i \in 2..Len(probes) : \E c \in CallIds :
    /\ probes[i].state = "true"
    /\ probes[i - 1].key = probes[i].key /\ probes[i - 1].evicted
    /\ calls[c].promise = i /\ ~calls[c].spawned /\ calls[c].live = {}
    /\ calls[c].result = "true"

\* The three platform kinds, from process.platform and the reported OS name.
PlatformKind(plat, os) ==
  IF plat # "win32" THEN "posix"
  ELSE IF StartsWithMINGW(os) THEN "windowsPosixEmulation" ELSE "windowsNative"

HostKind == PlatformKind(platform, host.osName)

\* The resolver and the install side agree on the interpreter's path, and a
\* path the resolver has returned in managed mode is the path it computes.
SidesAgree ==
  /\ ResolverPath(platform, host.osName, "python")
       = getVenvPythonPath(platform, host.osName)
  /\ (resolved.managed /\ resolved.result.kind = "path")
       => resolved.result.val = ResolverPath(platform, host.osName, resolved.name)

\* C15 as stated: the bin directory is Scripts on native Windows and bin on
\* the other two kinds, the suffix is .exe on native Windows only, and both
\* sides compute the same interpreter path.
C15_ExeOnNativeOnly ==
  /\ \A n \in {"python", "black"} :
       ResolverPath(platform, host.osName, n)
         = << IF HostKind = "windowsNative" THEN "Scripts" ELSE "bin", n,
              IF HostKind = "windowsNative" THEN ".exe" ELSE "" >>
  /\ SidesAgree

\* C15 amended: the bin directory is Scripts on native Windows and bin on
\* the other two kinds; the suffix is .exe on both Windows kinds (native and
\* POSIX emulation) and absent on POSIX only; both sides compute the same
\* interpreter path.
C15_ExeOnBothWindowsKinds ==
  /\ \A n \in {"python", "black"} :
       ResolverPath(platform, host.osName, n)
         = << IF HostKind = "windowsNative" THEN "Scripts" ELSE "bin", n,
              IF HostKind = "posix" THEN "" ELSE ".exe" >>
  /\ SidesAgree

\* C15's case: on POSIX emulation on Windows a run has provisioned the
\* environment through the install side's interpreter path, and the resolver
\* has then returned the interpreter at that same path, bin/python.exe.
C15_Witness ==
  /\ HostKind = "windowsPosixEmulation"
  /\ Len(runs) >= 1 /\ Succeeded(1)
  /\ resolved.name = "python" /\ resolved.managed
  /\ resolved.result = [kind |-> "path", val |-> <<"bin", "python", ".exe">>]
  /\ resolved.result.val = getVenvPythonPath(platform, host.osName)

ProcessFailures == {"error", "nonzero"}

\* C16: in doInstall the dependency install is spawned only when the
\* environment creation has just exited with code 0; when the environment
\* creation fails, by a spawn failure or a nonzero exit, no dependency
\* install is spawned in that run; the failure of either process is at once
\* the failure of doInstall, which in managed mode succeeds only when the
\* dependency install has just exited with code 0.
C16_ProvisionStepsInOrder ==
  \A r \in 1..Len(runs) :
    LET log == runs[r].log IN
    /\ \A j \in 1..Len(log) :
         /\ log[j] = Ev("pip", "spawn")
              => j > 1 /\ log[j - 1] = Ev("venv", "resolved")
         /\ (log[j].step \in {"venv", "pip"} /\ log[j].ev \in ProcessFailures)
              => j < Len(log) /\ log[j + 1] = Ev("provision", "fail")
         /\ (log[j] = Ev("provision", "ok") /\ ~runs[r].useGlobal)
              => j > 1 /\ log[j - 1] = Ev("pip", "resolved")
    /\ (\E i \in 1..Len(log) : log[i].step = "venv" /\ log[i].ev \in ProcessFailures)
         => ~HasEvent(r, "pip", "spawn")

\* C16's case: in one run the environment creation exited with a nonzero
\* code and doInstall failed without a dependency install; in another both
\* processes ran in order and the dependency install could not be started.
C16_Witness ==
  /\ Len(runs) = 2
  /\ HasEvent(1, "venv", "nonzero") /\ ~HasEvent(1, "pip", "spawn")
  /\ HasEvent(1, "provision", "fail")
  /\ HasEvent(2, "venv", "resolved") /\ HasEvent(2, "pip", "error")
  /\ HasEvent(2, "provision", "fail")

\* C19: a step in which the extraction of a present archive completes
\* successfully leaves, whatever the install directory held when doExtract
\* began, the install directory as exactly the archive's top-level
\* directory (the manifest and the bundled tree, no environment) plus the
\* version marker of the current tag, no unpacked directory beside it, and
\* no canonical archive.
C19_ExtractInstallsArchive ==
  [][ (At("extracting")
         /\ runs'[cur].log = Append(runs[cur].log, Ev("extract", "ok")))
        => /\ files[Canonical] = ArchiveLen
           /\ dir' = [exists |-> TRUE, version |-> CurrentTag, manifest |-> TRUE,
                      bundled |-> TRUE, venv |-> FALSE, venvFiles |-> {}]
           /\ base' = FALSE
           /\ files'[Canonical] = Absent ]_vars

\* C19's case: a second run began with the provisioned install of the first
\* (its environment and its marker) and has extracted its own archive: the
\* install directory is the unpacked archive with the marker, without the
\* old environment, and the archive is gone.
C19_Witness ==
  /\ Len(runs) = 2 /\ Succeeded(1)
  /\ runs[2].markerMatched
  /\ At("install")
  /\ HasEvent(2, "download", "ok") /\ HasEvent(2, "extract", "ok")
  /\ dir.version = CurrentTag /\ ~dir.venv /\ dir.manifest
  /\ files[Canonical] = Absent

\* The steps of a run that come before the promotion of the temp file (the
\* unlink of the canonical archive and the rename onto it).
BeforePromotion == {"prompt", "lookup", "fetch", "stream"}

\* C20: the step that receives an unsuccessful response (or no response)
\* ends the download as failed with the file system as it was, no temp
\* file created; and no step of a run before the promotion step, failing
\* or not, changes the canonical archive: a download that fails there
\* leaves it as it was when the run began.
C20_FailedDownloadKeepsArchive ==
  [][ /\ (At("fetch") /\ runs'[cur].resp # "ok")
         => /\ files' = files
            /\ files'[TempFile(cur)] = Absent
            /\ runs'[cur].pc = "extract"
            /\ runs'[cur].log = runs[cur].log
                                  \o <<Ev("download", "start"), Ev("download", "fail")>>
      /\ (Running /\ runs[cur].pc \in BeforePromotion)
         => files'[Canonical] = files[Canonical] ]_vars

\* C20's case: a run that found a complete archive at the canonical path
\* (left by a run that ended during extraction) got an unsuccessful
\* response: its download has failed, it has no temp file, and the archive
\* is still there, complete.
C20_Witness ==
  /\ Len(runs) = 2
  /\ At("extract")
  /\ runs[2].resp = "notok"
  /\ HasEvent(2, "download", "fail")
  /\ files[TempFile(2)] = Absent
  /\ files[Canonical] = ArchiveLen

\* The dependency manifest is not at its path: the install directory is
\* missing or has no requirements.txt in it.
ManifestMissing == ~(dir.exists /\ dir.manifest)

\* C21: in managed mode, the step of doInstall that finds the manifest
\* missing ends provisioning as failed at once: the install directory, its
\* environment included, and the files of the storage root are as they
\* were, and the run's log gains the start and the failure of provisioning
\* with no spawn of a process between them.
C21_MissingManifestFailsFirst ==
  [][ (At("install") /\ ~useGlobalCommand /\ ManifestMissing)
        => /\ dir' = dir
           /\ files' = files
           /\ base' = base
           /\ runs'[cur].pc = "restart"
           /\ runs'[cur].log = runs[cur].log
                                 \o <<Ev("provision", "start"), Ev("provision", "fail")>>
    ]_vars

\* C21's case: provisioning has failed on a missing manifest in an install
\* directory that still holds the old environment (the removal of the
\* directory before extraction failed part way): the environment and its
\* executables are still there and no process was spawned.
C21_Witness ==
  /\ At("restart")
  /\ ~runs[cur].useGlobal
  /\ ManifestMissing
  /\ dir.exists /\ dir.venv /\ dir.venvFiles # {}
  /\ HasEvent(cur, "provision", "fail")
  /\ ~HasEvent(cur, "venv", "spawn")

\* The steps of the managed pipeline that a run logs: the archive download,
\* the extraction and the two spawned processes of provisioning.
ManagedSteps == {"download", "extract", "venv", "pip"}

\* C22: with global mode configured (the configuration is the same at the
\* handler's read and at doInstall's), a run logs no step of the archive
\* download, of the extraction or of a spawned process, and a run that got
\* to the restart has downloaded the server script; and no step of such a
\* run changes the files of the storage root, the unpacked directory, or
\* the environment of the managed install directory.
C22_GlobalModeSkipsManaged ==
  /\ [](\A r \in 1..Len(runs) :
          runs[r].useGlobal =>
            /\ \A j \in 1..Len(runs[r].log) : runs[r].log[j].step \notin ManagedSteps
            /\ runs[r].outcome = "restarted" => HasEvent(r, "script", "ok"))
  /\ [][ (Running /\ runs[cur].useGlobal)
           => /\ files' = files
              /\ base' = base
              /\ dir'.venv = dir.venv
              /\ dir'.venvFiles = dir.venvFiles ]_vars

\* C22's case: a run in global mode has downloaded the server script, gone
\* through doInstall and restarted the server, on a host where an earlier
\* release left a managed install: its environment is still there and there
\* is no archive.
C22_Witness ==
  /\ runs # <<>>
  /\ runs[cur].useGlobal
  /\ runs[cur].outcome = "restarted"
  /\ HasEvent(cur, "script", "ok")
  /\ HasEvent(cur, "provision", "ok")
  /\ dir.venv /\ dir.venvFiles # {}
  /\ files[Canonical] = Absent

(***************************************************************************)
(* Claims about the language client (checked under SpecClient)             *)
(***************************************************************************)
\* The detector's classification of an interpreter: the outcome of the probe
\* the cache holds under its key.
Classified(interpreter) ==
  /\ CacheKey(interpreter) \in DOMAIN pythonTypeCache
  /\ probes[pythonTypeCache[CacheKey(interpreter)]].state = "true"

\* The tool path before any selection: the configured one, or the one the
\* resolver returned.
RawToolPath(i) == IF config.path # <<>> THEN config.path[i] ELSE config.blackPath

\* C17: when the client is created, the script it hands to the server's
\* interpreter is the translator's output for the script path if that
\* interpreter is classified as POSIX-emulation and the script's absolute
\* resolution otherwise (a configured dev.serverScript included), and so is
\* every tool path it hands to that interpreter.
C17_EveryPathSelected ==
  client.pc = "created" =>
    LET isMsys == Classified(client.serverInterpreter) IN
    /\ Ok(client.finalServerScript) = SelectPath(isMsys, client.serverScript)
    /\ \A i \in 1..Len(client.path) :
         Ok(client.path[i]) = SelectPath(isMsys, RawToolPath(i))

(***************************************************************************)
(* Claims about the process runner (checked under SpecRunner)              *)
(***************************************************************************)
\* The error names the way the process ended: the exit code or, for a
\* process that a signal ended, that signal.
CarriesExit(error, ev) ==
  IF ev.signal # "null"
  THEN "signal" \in DOMAIN error /\ error.signal = ev.signal
  ELSE "code" \in DOMAIN error /\ error.code = ev.code

\* C18: once the child has closed, the promise of spawnAsync is resolved
\* exactly when the exit code was 0, and then with the captured stdout and
\* stderr; after a nonzero exit or the death by a signal it is rejected with
\* an error that carries the exit code (or the signal), the captured stderr
\* and the arguments; when the process could not be started it is rejected
\* with the error of the failed start; and at most one process is spawned.
C18_RunnerContract ==
  /\ runner.spawned <= 1
  /\ runner.promise.state = "resolved"
       => /\ runner.child = "closed" /\ runner.exit.code = "0"
          /\ runner.promise.value = RunnerResult(runner.stdout, runner.stderr)
  /\ (runner.child = "errored" \/ (runner.pc = "called" /\ runner.spawned = 0))
       => /\ runner.promise.state = "rejected"
          /\ runner.promise.value.kind = "SpawnError"
  /\ runner.child = "closed"
       => IF runner.exit.code = "0" THEN runner.promise.state = "resolved"
          ELSE /\ runner.promise.state = "rejected"
               /\ \/ runner.promise.value.kind = "SpawnError"
                  \/ /\ CarriesExit(runner.promise.value, runner.exit)
                     /\ runner.promise.value.stderr = runner.stderr
                     /\ runner.promise.value.message.args = runner.args

=============================================================================
